---- MODULE Spec2Model ----
(***************************************************************************)
(* Model of the redstreak building blocks:                                 *)
(*   InMemoryConfigManager (src/src/classes/pub_sub_handler/PubSubHandler.ts)*)
(*   InMemoryCatalog       (src/unnamed/part_000)                          *)
(*   PubSubHandler         (src/src/classes/pub_sub_handler/PubSubHandler.ts)*)
(* Objects live in a heap of references so that aliasing between the       *)
(* canonical map, the frozen-view map and the activeConfig field is kept.  *)
(***************************************************************************)
EXTENDS Integers, Sequences, FiniteSets, Bags, TLC

\* ---------------------------------------------------------------- bounds
MaxVersion == 1
MaxId == 3
MaxItems == 3
MaxInit == 2
MaxCalls == 2

\* ------------------------------------------------------ program constants
INACTIVE == 0
ACTIVE == 1

\* ------------------------------------------------------------ input sets
Versions == 0..MaxVersion
\* -1 stands for every argument assertVersion rejects
VersionInputs == -1..MaxVersion
\* 2 stands for every argument assertStatus rejects
StatusInputs == 0..2
\* the payload a record carries besides its key: two values tell a replaced
\* snapshot from the one it replaces
Data == {0, 1}
\* one object per stored version, the object a stale activeConfig keeps alive,
\* and the clone update() allocates before the replaced one is dropped
ObjIds == 1..(MaxVersion + 3)
\* a Map entry / field holding no reference
None == 0
\* the value of an absent result (JavaScript undefined) in record form
undefined == [version |-> -1, status |-> -1, data |-> -1]
\* get() called without an argument
NoArg == -2

VARIABLES heap, configs, fakeConfigs, activeConfig, cmRet, items, catRet,
          psMode, psCtor, psState, psPending, psRet, psEvent, psLink, psOverlap

cmVars == <<heap, configs, fakeConfigs, activeConfig, cmRet>>
catVars == <<items, catRet>>
psVars == <<psMode, psCtor, psState, psPending, psRet, psEvent, psLink, psOverlap>>
vars == <<heap, configs, fakeConfigs, activeConfig, cmRet, items, catRet,
          psMode, psCtor, psState, psPending, psRet, psEvent, psLink, psOverlap>>

\* ------------------------------------------------------ ConfigManager
\* the manager's fields as one value
CM == [heap |-> heap, configs |-> configs, fakeConfigs |-> fakeConfigs,
       activeConfig |-> activeConfig]

isActive(c) == c.status = ACTIVE

\* reference of a freshly allocated object: the least unused one
NewRef(h) == CHOOSE r \in ObjIds : h[r] = undefined /\ \A q \in ObjIds : h[q] = undefined => r <= q

\* Garbage collection: objects no field refers to any more disappear, and the
\* live ones are renumbered (the clone stored under version v gets reference
\* v + 1, an object only activeConfig still refers to gets StaleRef), which
\* keeps every equality between references.
StaleRef == MaxVersion + 2
Collect(m) ==
    LET to(r) == IF r = None THEN None
                 ELSE IF \E v \in Versions : m.configs[v] = r
                      THEN (CHOOSE v \in Versions : m.configs[v] = r) + 1
                      ELSE StaleRef
        live == {m.configs[v] : v \in Versions} \cup {m.fakeConfigs[v] : v \in Versions}
                \cup {m.activeConfig}
        src(n) == {r \in ObjIds : r \in live /\ to(r) = n}
    IN [heap |-> [n \in ObjIds |-> IF src(n) # {} THEN m.heap[CHOOSE r \in src(n) : TRUE]
                                   ELSE undefined],
        configs |-> [v \in Versions |-> to(m.configs[v])],
        fakeConfigs |-> [v \in Versions |-> to(m.fakeConfigs[v])],
        activeConfig |-> to(m.activeConfig)]

\* fakeDeepFreeze(clone): a read-only proxy, i.e. a second reference to clone
fakeDeepFreeze(ref) == ref

assertVersion(version) == version >= 0
assertStatus(status) == status = INACTIVE \/ status = ACTIVE

\* get activeVersion(): this.activeConfig?.version
activeVersionOf(m) == IF m.activeConfig = None THEN -1 ELSE m.heap[m.activeConfig].version
activeVersion == activeVersionOf(CM)

size == Cardinality({v \in Versions : configs[v] # None})

\* Map.get on fakeConfigs, dereferenced
fakeGet(m, version) ==
    IF version \in Versions /\ m.fakeConfigs[version] # None
    THEN m.heap[m.fakeConfigs[version]] ELSE undefined

\* get(version?): [err, ret]
getOf(m, version) ==
    IF version # NoArg /\ version # 0
    THEN IF ~assertVersion(version) THEN [err |-> "INVALID_VERSION", ret |-> undefined]
         ELSE [err |-> "OK", ret |-> fakeGet(m, version)]
    ELSE IF m.activeConfig # None
         THEN [err |-> "OK", ret |-> fakeGet(m, m.heap[m.activeConfig].version)]
         ELSE [err |-> "OK", ret |-> undefined]
get(version) == getOf(CM, version).ret

\* activate that marks the target ACTIVE without touching the previous one
activateNoDeactivate(m, version) ==
    IF ~assertVersion(version) THEN [m |-> m, err |-> "INVALID_VERSION"]
    ELSE LET config == m.configs[version] IN
    IF config = None THEN [m |-> m, err |-> "NO_CONFIG"]
    ELSE LET av == activeVersionOf(m)
             active == IF m.activeConfig # None THEN m.configs[av] ELSE None
         IN
    IF active = config THEN [m |-> m, err |-> "OK"]
    ELSE [m |-> Collect([m EXCEPT !.heap[config].status = ACTIVE,
                                  !.activeConfig = m.fakeConfigs[version]]),
          err |-> "OK"]

\* activate that moves the active pointer before it looks the version up
activatePointerFirst(m, version) ==
    IF ~assertVersion(version) THEN [m |-> m, err |-> "INVALID_VERSION"]
    ELSE LET config == m.configs[version] IN
    IF config = None
    THEN [m |-> Collect([m EXCEPT !.activeConfig = None]), err |-> "NO_CONFIG"]
    ELSE LET av == activeVersionOf(m)
             active == IF m.activeConfig # None THEN m.configs[av] ELSE None
         IN
    IF active = config THEN [m |-> m, err |-> "OK"]
    ELSE LET h1 == IF active # None
                   THEN [m.heap EXCEPT ![active].status = INACTIVE, ![config].status = ACTIVE]
                   ELSE [m.heap EXCEPT ![config].status = ACTIVE]
         IN [m |-> Collect([m EXCEPT !.heap = h1, !.activeConfig = m.fakeConfigs[version]]),
             err |-> "OK"]

\* activate(version): [m, err]
activate(m, version) ==
    IF ~assertVersion(version) THEN [m |-> m, err |-> "INVALID_VERSION"]
    ELSE LET config == m.configs[version] IN
    IF config = None THEN [m |-> m, err |-> "NO_CONFIG"]
    ELSE LET av == activeVersionOf(m)
             active == IF m.activeConfig # None THEN m.configs[av] ELSE None
         IN
    IF active = config THEN [m |-> m, err |-> "OK"]
    ELSE LET h1 == IF active # None
                   THEN [m.heap EXCEPT ![active].status = INACTIVE, ![config].status = ACTIVE]
                   ELSE [m.heap EXCEPT ![config].status = ACTIVE]
         IN [m |-> Collect([m EXCEPT !.heap = h1, !.activeConfig = m.fakeConfigs[version]]),
             err |-> "OK"]

\* add that stores the clone before the active-overwrite check
addStoreFirst(m, config) ==
    IF ~assertVersion(config.version) THEN [m |-> m, err |-> "INVALID_VERSION"]
    ELSE IF ~assertStatus(config.status) THEN [m |-> m, err |-> "INVALID_STATUS"]
    ELSE IF m.configs[config.version] = None
    THEN LET clone == NewRef(m.heap)
             m1 == [m EXCEPT !.heap[clone] = config,
                             !.configs[config.version] = clone,
                             !.fakeConfigs[config.version] = fakeDeepFreeze(clone)]
         IN IF config.status = ACTIVE /\ m.activeConfig # None
            THEN [m |-> Collect(m1), err |-> "ACTIVE_OVERWRITE"]
            ELSE IF config.status = ACTIVE THEN activate(m1, config.version)
            ELSE [m |-> Collect(m1), err |-> "OK"]
    ELSE [m |-> m, err |-> "DUPLICATE_VERSION"]

\* add(config): [m, err]
add(m, config) ==
    IF ~assertVersion(config.version) THEN [m |-> m, err |-> "INVALID_VERSION"]
    ELSE IF ~assertStatus(config.status) THEN [m |-> m, err |-> "INVALID_STATUS"]
    ELSE IF config.status = ACTIVE /\ m.activeConfig # None
    THEN [m |-> m, err |-> "ACTIVE_OVERWRITE"]
    ELSE IF m.configs[config.version] = None
    THEN LET clone == NewRef(m.heap)
             m1 == [m EXCEPT !.heap[clone] = config,
                             !.configs[config.version] = clone,
                             !.fakeConfigs[config.version] = fakeDeepFreeze(clone)]
         IN IF config.status = ACTIVE THEN activate(m1, config.version)
            ELSE [m |-> Collect(m1), err |-> "OK"]
    ELSE [m |-> m, err |-> "DUPLICATE_VERSION"]

\* update without the status comparison
updateNoStatusCheck(m, updatedConfig) ==
    IF ~assertVersion(updatedConfig.version) THEN [m |-> m, err |-> "INVALID_VERSION"]
    ELSE IF ~assertStatus(updatedConfig.status) THEN [m |-> m, err |-> "INVALID_STATUS"]
    ELSE LET config == m.configs[updatedConfig.version] IN
    IF config = None THEN [m |-> m, err |-> "OK"]
    ELSE LET clone == NewRef(m.heap)
         IN [m |-> Collect([m EXCEPT !.heap[clone] = updatedConfig,
                                     !.configs[updatedConfig.version] = clone,
                                     !.fakeConfigs[updatedConfig.version] = fakeDeepFreeze(clone)]),
             err |-> "OK"]

\* update(updatedConfig): [m, err]
update(m, updatedConfig) ==
    IF ~assertVersion(updatedConfig.version) THEN [m |-> m, err |-> "INVALID_VERSION"]
    ELSE IF ~assertStatus(updatedConfig.status) THEN [m |-> m, err |-> "INVALID_STATUS"]
    ELSE LET config == m.configs[updatedConfig.version] IN
    IF config = None THEN [m |-> m, err |-> "OK"]
    ELSE IF updatedConfig.status # m.heap[config].status
    THEN [m |-> m, err |-> "IMMUTABLE_FIELD_UPDATE"]
    ELSE LET clone == NewRef(m.heap)
         IN [m |-> Collect([m EXCEPT !.heap[clone] = updatedConfig,
                                     !.configs[updatedConfig.version] = clone,
                                     !.fakeConfigs[updatedConfig.version] = fakeDeepFreeze(clone)]),
             err |-> "OK"]

\* remove without the isActive check
removeNoActiveCheck(m, version) ==
    IF ~assertVersion(version) THEN [m |-> m, err |-> "INVALID_VERSION"]
    ELSE LET config == m.configs[version] IN
    IF config = None THEN [m |-> m, err |-> "OK"]
    ELSE [m |-> Collect([m EXCEPT !.configs[version] = None, !.fakeConfigs[version] = None]),
          err |-> "OK"]

\* remove(version): [m, err]
remove(m, version) ==
    IF ~assertVersion(version) THEN [m |-> m, err |-> "INVALID_VERSION"]
    ELSE LET config == m.configs[version] IN
    IF config = None THEN [m |-> m, err |-> "OK"]
    ELSE IF isActive(m.heap[config])
    THEN [m |-> m, err |-> "REMOVING_ACTIVE_CONFIG"]
    ELSE [m |-> Collect([m EXCEPT !.configs[version] = None, !.fakeConfigs[version] = None]),
          err |-> "OK"]

\* the record of a ConfigManager call
CallRecord(op, version, status, err, ret) ==
    [op |-> op, version |-> version, status |-> status, err |-> err, ret |-> ret]

Add ==
    \E version \in VersionInputs, status \in StatusInputs, data \in Data :
        LET r == add(CM, [version |-> version, status |-> status, data |-> data])
        IN /\ heap' = r.m.heap
           /\ configs' = r.m.configs
           /\ fakeConfigs' = r.m.fakeConfigs
           /\ activeConfig' = r.m.activeConfig
           /\ cmRet' = CallRecord("add", version, status, r.err, undefined)
           /\ UNCHANGED <<catVars, psVars>>

Update ==
    \E version \in VersionInputs, status \in StatusInputs, data \in Data :
        LET r == update(CM, [version |-> version, status |-> status, data |-> data])
        IN /\ heap' = r.m.heap
           /\ configs' = r.m.configs
           /\ fakeConfigs' = r.m.fakeConfigs
           /\ activeConfig' = r.m.activeConfig
           /\ cmRet' = CallRecord("update", version, status, r.err, undefined)
           /\ UNCHANGED <<catVars, psVars>>

Remove ==
    \E version \in VersionInputs :
        LET r == remove(CM, version)
        IN /\ heap' = r.m.heap
           /\ configs' = r.m.configs
           /\ fakeConfigs' = r.m.fakeConfigs
           /\ activeConfig' = r.m.activeConfig
           /\ cmRet' = CallRecord("remove", version, -1, r.err, undefined)
           /\ UNCHANGED <<catVars, psVars>>

Activate ==
    \E version \in VersionInputs :
        LET r == activate(CM, version)
        IN /\ heap' = r.m.heap
           /\ configs' = r.m.configs
           /\ fakeConfigs' = r.m.fakeConfigs
           /\ activeConfig' = r.m.activeConfig
           /\ cmRet' = CallRecord("activate", version, -1, r.err, undefined)
           /\ UNCHANGED <<catVars, psVars>>

Get ==
    \E version \in VersionInputs \cup {NoArg} :
        LET g == getOf(CM, version)
        IN /\ cmRet' = CallRecord("get", version, -1, g.err, g.ret)
           /\ UNCHANGED <<heap, configs, fakeConfigs, activeConfig>>
           /\ UNCHANGED <<catVars, psVars>>

\* ------------------------------------------------------------ Catalog
\* 0 stands for every argument assertId rejects
IdInputs == 0..MaxId
Ids == 1..MaxId
Items == [id : Ids, data : Data]
\* an absent item (JavaScript undefined) in record form
noItem == [id |-> -1, data |-> -1]
\* array indices are 0-based as in the source: element i of its is its[i + 1]
at(its, i) == IF i >= 0 /\ i < Len(its) THEN its[i + 1] ELSE noItem

itemIdComparator(a, b) == a.id - b.id

assertId(id) == id >= 1

\* insertionIndex(arr, cmp, value): the leftmost index that keeps arr ordered,
\* found by bisection of [lo, hi)
RECURSIVE lowerBound(_, _, _, _)
lowerBound(its, value, lo, hi) ==
    IF lo >= hi THEN lo
    ELSE LET mid == (lo + hi) \div 2
         IN IF itemIdComparator(at(its, mid), value) < 0
            THEN lowerBound(its, value, mid + 1, hi)
            ELSE lowerBound(its, value, lo, mid)
insertionIndex(its, value) == lowerBound(its, value, 0, Len(its))

\* every index at which value keeps arr ordered: for a key that is present
\* these are the index of the equal entry and the indices up to just after it
insertionIndexAny(its, value) ==
    {i \in 0..Len(its) :
        /\ \A j \in 0..(i - 1) : itemIdComparator(at(its, j), value) <= 0
        /\ \A j \in i..(Len(its) - 1) : itemIdComparator(value, at(its, j)) <= 0}

\* bSearch(arr, cmp, value): index of an entry comparing equal, or -1
RECURSIVE bSearchFrom(_, _, _, _)
bSearchFrom(its, value, lo, hi) ==
    IF lo > hi THEN -1
    ELSE LET mid == (lo + hi) \div 2
             c == itemIdComparator(at(its, mid), value)
         IN IF c = 0 THEN mid
            ELSE IF c < 0 THEN bSearchFrom(its, value, mid + 1, hi)
            ELSE bSearchFrom(its, value, lo, mid - 1)
bSearch(its, value) == bSearchFrom(its, value, 0, Len(its) - 1)

\* #findIndex(x): a number is wrapped into { id: x } before the search
findIndex(its, id) == bSearch(its, [id |-> id, data |-> 0])

\* Array.splice(pos, 0, x) and Array.splice(index, 1)
spliceIn(its, pos, x) == SubSeq(its, 1, pos) \o <<x>> \o SubSeq(its, pos + 1, Len(its))
spliceOut(its, index) == SubSeq(its, 1, index) \o SubSeq(its, index + 2, Len(its))

\* insert whose duplicate test looks at the entry before pos
insertAtChecksPrev(its, item, pos) ==
    IF ~assertId(item.id) THEN [items |-> its, err |-> "INVALID_ID", pos |-> -1]
    ELSE LET itemAtPos == at(its, pos - 1)
         IN IF itemAtPos = noItem \/ itemAtPos.id # item.id
            THEN [items |-> spliceIn(its, pos, item), err |-> "OK", pos |-> pos]
            ELSE [items |-> its, err |-> "DUPLICATE_INSERT_ERROR", pos |-> pos]

\* insert without the duplicate test
insertAtNoDuplicateTest(its, item, pos) ==
    IF ~assertId(item.id) THEN [items |-> its, err |-> "INVALID_ID", pos |-> -1]
    ELSE [items |-> spliceIn(its, pos, item), err |-> "OK", pos |-> pos]

\* insert(item), from the index pos the insertion utility returned: [items, err, pos]
insertAt(its, item, pos) ==
    IF ~assertId(item.id) THEN [items |-> its, err |-> "INVALID_ID", pos |-> -1]
    ELSE LET itemAtPos == at(its, pos)
         IN IF itemAtPos = noItem \/ itemAtPos.id # item.id
            THEN [items |-> spliceIn(its, pos, item), err |-> "OK", pos |-> pos]
            ELSE [items |-> its, err |-> "DUPLICATE_INSERT_ERROR", pos |-> pos]

insert(its, item) == insertAt(its, item, insertionIndex(its, item))

\* update that ignores a missing id
catUpdateIgnoresMissing(its, item) ==
    IF ~assertId(item.id) THEN [items |-> its, err |-> "INVALID_ID", pos |-> -1]
    ELSE LET index == findIndex(its, item.id)
         IN IF index > -1
            THEN [items |-> [its EXCEPT ![index + 1] = item], err |-> "OK", pos |-> index]
            ELSE [items |-> its, err |-> "OK", pos |-> index]

\* update(item): [items, err, pos]
catUpdate(its, item) ==
    IF ~assertId(item.id) THEN [items |-> its, err |-> "INVALID_ID", pos |-> -1]
    ELSE LET index == findIndex(its, item.id)
         IN IF index > -1
            THEN [items |-> [its EXCEPT ![index + 1] = item], err |-> "OK", pos |-> index]
            ELSE [items |-> its, err |-> "INDEX_ERROR", pos |-> index]

\* findById(id): [err, ret]
findById(its, id) ==
    IF ~assertId(id) THEN [err |-> "INVALID_ID", ret |-> noItem]
    ELSE LET index == findIndex(its, id)
         IN IF index > -1 THEN [err |-> "OK", ret |-> at(its, index)]
            ELSE [err |-> "OK", ret |-> noItem]

\* fetchAll(): a copy of the array, element by element
fetchAll == [i \in 1..Len(items) |-> items[i]]

\* get size(): this.#items.length
catSize == Len(items)

\* remove(id): [items, err, pos]
catRemove(its, id) ==
    IF ~assertId(id) THEN [items |-> its, err |-> "INVALID_ID", pos |-> -1]
    ELSE LET index == findIndex(its, id)
         IN IF index > -1
            THEN [items |-> spliceOut(its, index), err |-> "OK", pos |-> index]
            ELSE [items |-> its, err |-> "OK", pos |-> index]

\* constructor(items?): insert every element in turn; a failing insert throws
RECURSIVE construct(_, _)
construct(list, acc) ==
    IF list = <<>> THEN [items |-> acc, err |-> "OK"]
    ELSE LET r == insert(acc, Head(list))
         IN IF r.err # "OK" THEN [items |-> acc, err |-> r.err]
            ELSE construct(Tail(list), r.items)

\* the record of a Catalog call
CatRecord(op, id, data, err, pos, ret) ==
    [op |-> op, id |-> id, data |-> data, err |-> err, pos |-> pos, ret |-> ret]

Insert ==
    \E id \in IdInputs, data \in Data :
        LET r == insert(items, [id |-> id, data |-> data])
        IN /\ Len(r.items) <= MaxItems
           /\ items' = r.items
           /\ catRet' = CatRecord("insert", id, data, r.err, r.pos, noItem)
           /\ UNCHANGED <<cmVars, psVars>>

\* insert when the utility may return any order-preserving index
InsertAnyIndex ==
    \E id \in IdInputs, data \in Data :
        \E pos \in insertionIndexAny(items, [id |-> id, data |-> data]) :
            LET r == insertAt(items, [id |-> id, data |-> data], pos)
            IN /\ Len(r.items) <= MaxItems
               /\ items' = r.items
               /\ catRet' = CatRecord("insert", id, data, r.err, r.pos, noItem)
               /\ UNCHANGED <<cmVars, psVars>>

CatUpdate ==
    \E id \in IdInputs, data \in Data :
        LET r == catUpdate(items, [id |-> id, data |-> data])
        IN /\ items' = r.items
           /\ catRet' = CatRecord("update", id, data, r.err, r.pos, noItem)
           /\ UNCHANGED <<cmVars, psVars>>

CatRemove ==
    \E id \in IdInputs :
        LET r == catRemove(items, id)
        IN /\ items' = r.items
           /\ catRet' = CatRecord("remove", id, -1, r.err, r.pos, noItem)
           /\ UNCHANGED <<cmVars, psVars>>

FindById ==
    \E id \in IdInputs :
        LET f == findById(items, id)
        IN /\ catRet' = CatRecord("findById", id, -1, f.err, -1, f.ret)
           /\ UNCHANGED items
           /\ UNCHANGED <<cmVars, psVars>>

\* ------------------------------------------------------ PubSubHandler
\* enum PubSubStates
UNSUBSCRIBED == -1
DISCONNECTED == 0
CONNECTED == 1
SUBSCRIBED == 2
\* enum PubSubModes
SUB == 0
PUB == 1
DUAL == 2

PubSubStates == {UNSUBSCRIBED, DISCONNECTED, CONNECTED, SUBSCRIBED}
PubSubModes == {SUB, PUB, DUAL}
\* enum PubSubEvents
PubSubEvents == {"connected", "disconnected", "message", "subscribed", "unsubscribed",
                 "published"}
\* numbers offered to the constructor as mode
ModeInputs == (UNSUBSCRIBED - 1)..(DUAL + 1)
Ops == {"connect", "disconnect", "subscribe", "unsubscribe", "publish"}
Transitions == {"connect", "disconnect", "subscribe", "unsubscribe"}

\* _validateMode(mode): typeof mode == "number" && mode in PubSubStates; the
\* enum object PubSubStates has the keys "-1", "0", "1", "2" besides the names
validateMode(mode) == mode \in PubSubStates

isSubscribed(st) == st = SUBSCRIBED
isConnected(st) == st >= CONNECTED
canSubscribe(mode) == mode = SUB \/ mode = DUAL
canPublish(mode) == mode = PUB \/ mode = DUAL

\* the checks made without subModeCheck
guardNoSubModeCheck(op, mode, st) ==
    IF op = "connect" THEN (IF isConnected(st) THEN "return" ELSE "hook")
    ELSE IF op = "disconnect" THEN (IF ~isConnected(st) THEN "return" ELSE "hook")
    ELSE IF ~isConnected(st) THEN "Not Connected"
    ELSE IF op = "publish" /\ ~canPublish(mode) THEN "Can Not Publish"
    ELSE "hook"

\* the checks made without pubModeCheck
guardNoPubModeCheck(op, mode, st) ==
    IF op = "connect" THEN (IF isConnected(st) THEN "return" ELSE "hook")
    ELSE IF op = "disconnect" THEN (IF ~isConnected(st) THEN "return" ELSE "hook")
    ELSE IF ~isConnected(st) THEN "Not Connected"
    ELSE IF op \in {"subscribe", "unsubscribe"} /\ ~canSubscribe(mode) THEN "Can Not Subscribe"
    ELSE "hook"

\* the checks made with connect lacking its isConnected test
guardConnectAlways(op, mode, st) ==
    IF op = "connect" THEN "hook"
    ELSE IF op = "disconnect" THEN (IF ~isConnected(st) THEN "return" ELSE "hook")
    ELSE IF ~isConnected(st) THEN "Not Connected"
    ELSE IF op \in {"subscribe", "unsubscribe"} /\ ~canSubscribe(mode) THEN "Can Not Subscribe"
    ELSE IF op = "publish" /\ ~canPublish(mode) THEN "Can Not Publish"
    ELSE "hook"

\* the synchronous part of a method, up to its await: "return" (early return),
\* the message of the error thrown by connectionCheck / subModeCheck /
\* pubModeCheck, or "hook" (the hook is invoked)
guard(op, mode, st) ==
    IF op = "connect" THEN (IF isConnected(st) THEN "return" ELSE "hook")
    ELSE IF op = "disconnect" THEN (IF ~isConnected(st) THEN "return" ELSE "hook")
    ELSE IF ~isConnected(st) THEN "Not Connected"
    ELSE IF op \in {"subscribe", "unsubscribe"} /\ ~canSubscribe(mode) THEN "Can Not Subscribe"
    ELSE IF op = "publish" /\ ~canPublish(mode) THEN "Can Not Publish"
    ELSE "hook"

\* the assignments after the await, with disconnect stepping down one state
targetDisconnectStepsDown(op, st) ==
    IF op = "connect" THEN CONNECTED
    ELSE IF op = "disconnect" THEN st - 1
    ELSE IF op = "subscribe" THEN SUBSCRIBED
    ELSE IF op = "unsubscribe" THEN DISCONNECTED
    ELSE st

\* the assignment to #state after the await of each method
target(op, st) ==
    IF op = "connect" THEN CONNECTED
    ELSE IF op = "disconnect" THEN DISCONNECTED
    ELSE IF op = "subscribe" THEN SUBSCRIBED
    ELSE IF op = "unsubscribe" THEN DISCONNECTED
    ELSE st

\* the record of a PubSubHandler call: result is "pending" while its hook
\* runs, "OK" or "Hook Failed" when the hook settled, else what guard said;
\* pre is #state when the call was made
PsRecord(op, result, hook, pre) == [op |-> op, result |-> result, hook |-> hook, pre |-> pre]

\* a call suspended at its await
Suspended(op, pre) == SetToBag({[op |-> op, pre |-> pre]})

\* the last settled hooks: cd among connect / disconnect, cdu among connect /
\* disconnect / unsubscribe, prev the value of cdu before that
linkAfter(link, op) ==
    IF op \in {"connect", "disconnect"} THEN [cd |-> op, cdu |-> op, prev |-> link.cdu]
    ELSE IF op = "unsubscribe" THEN [cd |-> link.cd, cdu |-> op, prev |-> link.cdu]
    ELSE link

\* connect that assigns #state before it awaits the hook
ConnectAssignsFirst ==
    /\ psCtor = "OK" /\ BagCardinality(psPending) < psOverlap
    /\ LET g == guard("connect", psMode, psState)
       IN /\ psPending' = IF g = "hook" THEN psPending (+) Suspended("connect", psState)
                          ELSE psPending
          /\ psState' = IF g = "hook" THEN CONNECTED ELSE psState
          /\ psRet' = PsRecord("connect", IF g = "hook" THEN "pending" ELSE g, g = "hook", psState)
    /\ UNCHANGED <<psMode, psCtor, psEvent, psLink, psOverlap, cmVars, catVars>>

Connect ==
    /\ psCtor = "OK" /\ BagCardinality(psPending) < psOverlap
    /\ LET g == guard("connect", psMode, psState)
       IN /\ psPending' = IF g = "hook" THEN psPending (+) Suspended("connect", psState)
                          ELSE psPending
          /\ psRet' = PsRecord("connect", IF g = "hook" THEN "pending" ELSE g, g = "hook", psState)
    /\ UNCHANGED <<psMode, psCtor, psState, psEvent, psLink, psOverlap, cmVars, catVars>>

Disconnect ==
    /\ psCtor = "OK" /\ BagCardinality(psPending) < psOverlap
    /\ LET g == guard("disconnect", psMode, psState)
       IN /\ psPending' = IF g = "hook" THEN psPending (+) Suspended("disconnect", psState)
                          ELSE psPending
          /\ psRet' = PsRecord("disconnect", IF g = "hook" THEN "pending" ELSE g, g = "hook", psState)
    /\ UNCHANGED <<psMode, psCtor, psState, psEvent, psLink, psOverlap, cmVars, catVars>>

\* subscribe(channel): the channel is only handed to the hook
Subscribe ==
    /\ psCtor = "OK" /\ BagCardinality(psPending) < psOverlap
    /\ LET g == guard("subscribe", psMode, psState)
       IN /\ psPending' = IF g = "hook" THEN psPending (+) Suspended("subscribe", psState)
                          ELSE psPending
          /\ psRet' = PsRecord("subscribe", IF g = "hook" THEN "pending" ELSE g, g = "hook", psState)
    /\ UNCHANGED <<psMode, psCtor, psState, psEvent, psLink, psOverlap, cmVars, catVars>>

Unsubscribe ==
    /\ psCtor = "OK" /\ BagCardinality(psPending) < psOverlap
    /\ LET g == guard("unsubscribe", psMode, psState)
       IN /\ psPending' = IF g = "hook" THEN psPending (+) Suspended("unsubscribe", psState)
                          ELSE psPending
          /\ psRet' = PsRecord("unsubscribe", IF g = "hook" THEN "pending" ELSE g, g = "hook", psState)
    /\ UNCHANGED <<psMode, psCtor, psState, psEvent, psLink, psOverlap, cmVars, catVars>>

\* publish(channel, message): both are only handed to the hook
Publish ==
    /\ psCtor = "OK" /\ BagCardinality(psPending) < psOverlap
    /\ LET g == guard("publish", psMode, psState)
       IN /\ psPending' = IF g = "hook" THEN psPending (+) Suspended("publish", psState)
                          ELSE psPending
          /\ psRet' = PsRecord("publish", IF g = "hook" THEN "pending" ELSE g, g = "hook", psState)
    /\ UNCHANGED <<psMode, psCtor, psState, psEvent, psLink, psOverlap, cmVars, catVars>>

\* the promise of a hook resolves: the method continues after its await
HookResolves ==
    \E k \in BagToSet(psPending) :
        /\ psPending' = psPending (-) Suspended(k.op, k.pre)
        /\ psState' = target(k.op, psState)
        /\ psLink' = linkAfter(psLink, k.op)
        /\ psRet' = PsRecord(k.op, "OK", TRUE, k.pre)
        /\ UNCHANGED <<psMode, psCtor, psEvent, psOverlap, cmVars, catVars>>

\* the promise of a hook rejects: the await throws, the assignment is skipped
HookRejects ==
    \E k \in BagToSet(psPending) :
        /\ psPending' = psPending (-) Suspended(k.op, k.pre)
        /\ psRet' = PsRecord(k.op, "Hook Failed", TRUE, k.pre)
        /\ UNCHANGED <<psMode, psCtor, psState, psEvent, psLink, psOverlap, cmVars, catVars>>

\* emit(event, ...args), called by a subclass or a client: the emitter
\* delivers to the listeners at once, while #state is what it is
Emit ==
    \E event \in PubSubEvents :
        /\ psCtor = "OK"
        /\ psEvent' = [name |-> event, state |-> psState]
        /\ UNCHANGED <<psMode, psCtor, psState, psPending, psRet, psLink, psOverlap,
                       cmVars, catVars>>

\* no handler in use
PubSubUnused ==
    /\ psMode = DUAL /\ psCtor = "OK" /\ psState = DISCONNECTED
    /\ psPending = EmptyBag
    /\ psRet = PsRecord("new", "OK", FALSE, DISCONNECTED)
    /\ psEvent = [name |-> "none", state |-> DISCONNECTED]
    /\ psLink = [cd |-> "none", cdu |-> "none", prev |-> "none"]
    /\ psOverlap = 1

\* new InMemoryConfigManager(): both maps empty, no active pointer
InitConfig ==
    /\ heap = [r \in ObjIds |-> undefined]
    /\ configs = [v \in Versions |-> None]
    /\ fakeConfigs = [v \in Versions |-> None]
    /\ activeConfig = None
    /\ cmRet = CallRecord("new", -1, -1, "OK", undefined)
    /\ items = <<>>
    /\ catRet = CatRecord("new", -1, -1, "OK", -1, noItem)
    /\ PubSubUnused

NextConfig == Add \/ Update \/ Remove \/ Activate \/ Get

SpecConfig == InitConfig /\ [][NextConfig]_vars

\* argument lists of the Catalog constructor
InitLists == UNION {[1..n -> Items] : n \in 0..MaxInit}

\* new InMemoryCatalog(list) for every list the constructor accepts
InitCatalog ==
    /\ heap = [r \in ObjIds |-> undefined]
    /\ configs = [v \in Versions |-> None]
    /\ fakeConfigs = [v \in Versions |-> None]
    /\ activeConfig = None
    /\ cmRet = CallRecord("new", -1, -1, "OK", undefined)
    /\ \E list \in InitLists :
          /\ construct(list, <<>>).err = "OK"
          /\ items = construct(list, <<>>).items
    /\ catRet = CatRecord("new", -1, -1, "OK", -1, noItem)
    /\ PubSubUnused

NextCatalog == Insert \/ CatUpdate \/ CatRemove \/ FindById

SpecCatalog == InitCatalog /\ [][NextCatalog]_vars

NextCatalogAnyIndex == InsertAnyIndex \/ CatUpdate \/ CatRemove \/ FindById

SpecCatalogAnyIndex == InitCatalog /\ [][NextCatalogAnyIndex]_vars

\* new Subclass(client, mode) for every mode offered, with at most overlap
\* calls in flight at a time; a rejected mode leaves no handler to call
InitPubSubWith(overlap) ==
    /\ heap = [r \in ObjIds |-> undefined]
    /\ configs = [v \in Versions |-> None]
    /\ fakeConfigs = [v \in Versions |-> None]
    /\ activeConfig = None
    /\ cmRet = CallRecord("new", -1, -1, "OK", undefined)
    /\ items = <<>>
    /\ catRet = CatRecord("new", -1, -1, "OK", -1, noItem)
    /\ psMode \in ModeInputs
    /\ psCtor = IF validateMode(psMode) THEN "OK" ELSE "Invalid Mode"
    /\ psState = DISCONNECTED
    /\ psPending = EmptyBag
    /\ psRet = PsRecord("new", psCtor, FALSE, DISCONNECTED)
    /\ psEvent = [name |-> "none", state |-> DISCONNECTED]
    /\ psLink = [cd |-> "none", cdu |-> "none", prev |-> "none"]
    /\ psOverlap = overlap

\* sequential use: each call settles before the next is made
InitPubSub == InitPubSubWith(1)

NextPubSub ==
    Connect \/ Disconnect \/ Subscribe \/ Unsubscribe \/ Publish
        \/ HookResolves \/ HookRejects \/ Emit

SpecPubSub == InitPubSub /\ [][NextPubSub]_vars

\* sequential use with hooks that never fail
NextPubSubReliable ==
    Connect \/ Disconnect \/ Subscribe \/ Unsubscribe \/ Publish \/ HookResolves \/ Emit

SpecPubSubReliable == InitPubSub /\ [][NextPubSubReliable]_vars

\* calls made while earlier ones are still suspended at their await
InitPubSubOverlapping == InitPubSubWith(MaxCalls)

NextPubSubOverlapping ==
    Connect \/ Disconnect \/ Subscribe \/ Unsubscribe \/ Publish
        \/ HookResolves \/ HookRejects

SpecPubSubOverlapping == InitPubSubOverlapping /\ [][NextPubSubOverlapping]_vars

\* ------------------------------------------------ ConfigManager properties
StoredIn(m, v) == m.configs[v] # None
\* the canonical record stored under v
RecIn(m, v) == m.heap[m.configs[v]]
sizeOf(m) == Cardinality({v \in Versions : StoredIn(m, v)})
Stored(v) == StoredIn(CM, v)
Rec(v) == RecIn(CM, v)
\* the frozen snapshot stored under v
View(v) == fakeGet(CM, v)
ActiveVersions == {v \in Versions : (Stored(v) /\ isActive(Rec(v))) \/ isActive(View(v))}
storeVars == <<heap, configs, fakeConfigs, activeConfig>>

\* C1: in every reachable state at most one stored record has status ACTIVE
C1_AtMostOneActive == Cardinality(ActiveVersions) <= 1
\* C1 witness: a second ACTIVE record was offered, or the active slot was
\* moved, while two or more records are stored and one of them is ACTIVE
C1_Witness ==
    /\ size >= 2 /\ Cardinality(ActiveVersions) = 1
    /\ cmRet.op = "activate" /\ cmRet.err = "OK" /\ cmRet.version \in ActiveVersions
    /\ \E w \in Versions : w # cmRet.version /\ Stored(w)

\* C2 (as claimed): activate(v) of a stored, not active v is one swap: get()
\* then returns v's record with status ACTIVE, activeVersion is v, the
\* previously active record is reported INACTIVE by get(oldVersion), and no
\* other record changes
C2_ActivateSwapSeenByGet ==
    [][(cmRet'.op = "activate" /\ cmRet'.version \in Versions
        /\ Stored(cmRet'.version) /\ ~isActive(Rec(cmRet'.version)))
       => LET v == cmRet'.version
              old == activeVersion
          IN /\ getOf(CM', NoArg).ret = [Rec(v) EXCEPT !.status = ACTIVE]
             /\ activeVersion' = v
             /\ (old # -1 => getOf(CM', old).ret = [Rec(old) EXCEPT !.status = INACTIVE])
             /\ \A w \in Versions \ {v, old} :
                    /\ StoredIn(CM', w) = Stored(w)
                    /\ Stored(w) => (RecIn(CM', w) = Rec(w) /\ fakeGet(CM', w) = View(w))]_vars

\* C3 (as claimed): get(version) with version >= 0 returns the stored record
\* of exactly that version, or absent when that version is not stored
C3_GetByVersion ==
    (cmRet.op = "get" /\ cmRet.version \in Versions)
        => cmRet.ret = (IF Stored(cmRet.version) THEN Rec(cmRet.version) ELSE undefined)

\* C4: a rejected add leaves the store unchanged; it is rejected with
\* ACTIVE_OVERWRITE when the config is ACTIVE and an active record exists,
\* and otherwise with DUPLICATE_VERSION when the version is already stored
C4_RejectedAddChangesNothing ==
    [][(cmRet'.op = "add" /\ assertVersion(cmRet'.version) /\ assertStatus(cmRet'.status))
       => LET overwrite == cmRet'.status = ACTIVE /\ ActiveVersions # {}
              duplicate == Stored(cmRet'.version)
          IN /\ overwrite => cmRet'.err = "ACTIVE_OVERWRITE"
             /\ (~overwrite /\ duplicate) => cmRet'.err = "DUPLICATE_VERSION"
             /\ (~overwrite /\ ~duplicate) => cmRet'.err = "OK"
             /\ cmRet'.err # "OK" => UNCHANGED storeVars]_vars
\* C4 witness: an ACTIVE config for a new version was rejected while another
\* record is active
C4_Witness ==
    /\ cmRet.op = "add" /\ cmRet.err = "ACTIVE_OVERWRITE"
    /\ ~Stored(cmRet.version) /\ ActiveVersions # {}

\* C5: activate of a version that is not stored fails with NO_CONFIG and
\* changes neither the active version nor any record nor the set of records
C5_ActivateMissing ==
    [][(cmRet'.op = "activate" /\ cmRet'.version \in Versions /\ ~Stored(cmRet'.version))
       => /\ cmRet'.err = "NO_CONFIG"
          /\ activeVersion' = activeVersion
          /\ UNCHANGED storeVars]_vars
\* C5 witness: activate failed for a missing version while a record is active
C5_Witness ==
    /\ cmRet.op = "activate" /\ cmRet.err = "NO_CONFIG"
    /\ activeVersion # -1 /\ ~Stored(cmRet.version)

\* C6: remove of the active version fails with REMOVING_ACTIVE_CONFIG and the
\* record stays stored and active; remove of a version that is not stored
\* returns normally and changes nothing; remove of a stored INACTIVE record
\* deletes exactly that record
C6_Remove ==
    [][(cmRet'.op = "remove" /\ cmRet'.version \in Versions)
       => LET v == cmRet'.version
          IN /\ (Stored(v) /\ isActive(Rec(v)))
                    => /\ cmRet'.err = "REMOVING_ACTIVE_CONFIG"
                       /\ UNCHANGED storeVars
             /\ ~Stored(v) => (cmRet'.err = "OK" /\ UNCHANGED storeVars)
             /\ (Stored(v) /\ ~isActive(Rec(v)))
                    => /\ cmRet'.err = "OK"
                       /\ ~StoredIn(CM', v) /\ fakeGet(CM', v) = undefined
                       /\ sizeOf(CM') = size - 1
                       /\ \A w \in Versions \ {v} :
                            /\ StoredIn(CM', w) = Stored(w)
                            /\ Stored(w) => (RecIn(CM', w) = Rec(w) /\ fakeGet(CM', w) = View(w))
             /\ (cmRet'.err = "OK" /\ sizeOf(CM') # size) => (Stored(v) /\ ~isActive(Rec(v)))]_vars
\* C6 witness: removing the active version was refused
C6_Witness ==
    /\ cmRet.op = "remove" /\ cmRet.err = "REMOVING_ACTIVE_CONFIG"
    /\ Stored(cmRet.version) /\ isActive(Rec(cmRet.version)) /\ activeVersion = cmRet.version

\* C7: update with a status different from the stored one fails with
\* IMMUTABLE_FIELD_UPDATE and leaves the record unchanged; no update changes
\* the status of any stored record; update of a missing version is a no-op
C7_UpdateKeepsStatus ==
    [][(cmRet'.op = "update" /\ assertVersion(cmRet'.version) /\ assertStatus(cmRet'.status))
       => LET v == cmRet'.version
          IN /\ (Stored(v) /\ cmRet'.status # Rec(v).status)
                    => (cmRet'.err = "IMMUTABLE_FIELD_UPDATE" /\ UNCHANGED storeVars)
             /\ ~Stored(v) => (cmRet'.err = "OK" /\ UNCHANGED storeVars)
             /\ \A w \in Versions :
                    /\ StoredIn(CM', w) = Stored(w)
                    /\ Stored(w) => (RecIn(CM', w).status = Rec(w).status
                                     /\ fakeGet(CM', w).status = View(w).status)]_vars
\* C7 witness: an update that tried to flip a stored status was refused
C7_Witness ==
    /\ cmRet.op = "update" /\ cmRet.err = "IMMUTABLE_FIELD_UPDATE"
    /\ Stored(cmRet.version) /\ Rec(cmRet.version).status # cmRet.status

\* ------------------------------------------------------ Catalog properties
\* the entries of its that carry id
Entries(its, id) == {its[i] : i \in {j \in 1..Len(its) : its[j].id = id}}
Has(its, id) == Entries(its, id) # {}
StrictlyAscending(its) == \A i \in 1..(Len(its) - 1) : its[i].id < its[i + 1].id

\* C8: after any sequence of insert / update / remove calls, also on a catalog
\* built from an unsorted list, fetchAll() is strictly ascending by id (sorted,
\* no id twice) and size equals its length
C8_FetchAllStrictlyAscending ==
    /\ StrictlyAscending(fetchAll)
    /\ catSize = Len(fetchAll)
\* C8 witness: an item was inserted in front of two or more stored items
C8_Witness ==
    /\ catRet.op = "insert" /\ catRet.err = "OK" /\ catRet.pos = 0
    /\ Len(items) >= 3 /\ items[1].id = catRet.id

C10_NotFoundAsymmetry ==
    [][LET id == catRet'.id
           given == [id |-> id, data |-> catRet'.data]
           othersKept == \A j \in Ids \ {id} : findById(items', j) = findById(items, j)
       IN (catRet'.op \in {"insert", "update", "remove", "findById"} /\ id \in Ids)
          => /\ (catRet'.op = "update" /\ ~Has(items, id))
                    => (catRet'.err = "INDEX_ERROR" /\ items' = items)
             /\ (catRet'.op = "remove" /\ ~Has(items, id))
                    => (catRet'.err = "OK" /\ items' = items)
             /\ catRet'.op = "findById"
                    => /\ catRet'.err = "OK" /\ items' = items
                       /\ ~Has(items, id) => catRet'.ret = noItem
                       /\ Has(items, id) => Entries(items, id) = {catRet'.ret}
             /\ (catRet'.op \in {"insert", "update"} /\ catRet'.err = "OK")
                    => (findById(items', id).ret = given /\ othersKept)
             /\ (catRet'.op = "update" /\ Has(items, id)) => catRet'.err = "OK"
             /\ catRet'.op = "remove"
                    => (catRet'.err = "OK" /\ findById(items', id).ret = noItem /\ othersKept)
             /\ catRet'.err # "OK" => items' = items]_vars
\* C10 witness: update of an id that is not stored failed on a non-empty catalog
C10_Witness ==
    /\ catRet.op = "update" /\ catRet.err = "INDEX_ERROR"
    /\ Len(items) >= 2 /\ ~Has(items, catRet.id)

\* the snapshot the public activeConfig field shows
activeConfigField == IF activeConfig = None THEN undefined ELSE heap[activeConfig]

\* C18 (as claimed): after any sequence of calls the activeConfig field is the
\* snapshot that get() and get(activeVersion) return, also after update() of
\* the currently active version
C18_ActiveConfigIsCurrent ==
    /\ activeConfigField = get(NoArg)
    /\ activeVersion # -1 => activeConfigField = get(activeVersion)

\* C19: activeVersion is defined exactly when one stored record is ACTIVE, it
\* is then the version of that record, which is stored; and once a record is
\* active every later state has exactly one active record
C19_ActiveVersionTracksActiveRecord ==
    /\ [](/\ (activeVersion # -1) <=> (Cardinality(ActiveVersions) = 1)
          /\ activeVersion # -1 => (ActiveVersions = {activeVersion} /\ Stored(activeVersion)))
    /\ [][Cardinality(ActiveVersions) = 1
            => Cardinality({v \in Versions :
                              (StoredIn(CM', v) /\ isActive(RecIn(CM', v)))
                              \/ isActive(fakeGet(CM', v))}) = 1]_vars
\* C19 witness: with two records stored, a remove of the active version was
\* refused and the active pointer shows the stored record of that version
C19_Witness ==
    /\ cmRet.op = "remove" /\ cmRet.err = "REMOVING_ACTIVE_CONFIG"
    /\ activeVersion = cmRet.version /\ size >= 2
    /\ activeConfigField = Rec(cmRet.version)

\* ------------------------------------------------ PubSubHandler properties
\* a step in which the method op is called (it returns, throws, or suspends)
CallStep(op) ==
    /\ psRet'.op = op /\ psEvent' = psEvent
    /\ BagCardinality(psPending') >= BagCardinality(psPending)
\* a step in which the hook of a suspended call of op settles
SettleStep(op) ==
    /\ psRet'.op = op
    /\ BagCardinality(psPending') < BagCardinality(psPending)
\* the lifecycle event named after each method
eventOf(op) ==
    IF op = "connect" THEN "connected"
    ELSE IF op = "disconnect" THEN "disconnected"
    ELSE IF op = "subscribe" THEN "subscribed"
    ELSE IF op = "unsubscribe" THEN "unsubscribed"
    ELSE "published"
\* the suspended calls of transition methods
TransitionsInFlight ==
    BagCardinality([k \in {x \in DOMAIN psPending : x.op \in Transitions} |-> psPending[k]])

\* C11: subscribe and unsubscribe fail with Not Connected below CONNECTED and
\* with Can Not Subscribe when connected in a mode that forbids it (PUB); a
\* failing call invokes no hook and changes no state; a successful subscribe
\* leaves the state SUBSCRIBED, a successful unsubscribe DISCONNECTED
C11_SubscribeGuards ==
    [][\A op \in {"subscribe", "unsubscribe"} :
         /\ CallStep(op)
              => /\ ~isConnected(psState) => psRet'.result = "Not Connected"
                 /\ (isConnected(psState) /\ psMode = PUB)
                        => psRet'.result = "Can Not Subscribe"
                 /\ psRet'.result \in {"Not Connected", "Can Not Subscribe"}
                        => (~psRet'.hook /\ psPending' = psPending /\ psState' = psState)
                 /\ (isConnected(psState) /\ canSubscribe(psMode))
                        => (psRet'.hook /\ psRet'.result = "pending")
         /\ (SettleStep(op) /\ psRet'.result = "OK")
              => /\ op = "subscribe" => isSubscribed(psState')
                 /\ op = "unsubscribe" => psState' = DISCONNECTED]_vars
\* C11 witness: connect then subscribe succeeded on a SUB handler
C11_Witness ==
    /\ psRet.op = "subscribe" /\ psRet.result = "OK" /\ psRet.pre = CONNECTED
    /\ psMode = SUB /\ isSubscribed(psState)

\* C12: publish fails with Can Not Publish in mode SUB even when connected,
\* with Not Connected below CONNECTED in any mode, and never changes the state
C12_PublishKeepsState ==
    [][/\ CallStep("publish")
            => /\ ~isConnected(psState) => psRet'.result = "Not Connected"
               /\ (isConnected(psState) /\ psMode = SUB) => psRet'.result = "Can Not Publish"
               /\ psRet'.result \in {"Not Connected", "Can Not Publish"} => ~psRet'.hook
               /\ psState' = psState
       /\ SettleStep("publish") => psState' = psState]_vars
\* C12 witness: publish was refused on a connected SUB handler
C12_Witness ==
    /\ psRet.op = "publish" /\ psRet.result = "Can Not Publish"
    /\ psMode = SUB /\ isConnected(psState)

\* C13 (as claimed): construction with a mode other than SUB, PUB, DUAL fails
\* with Invalid Mode, so every handler has one of these modes and can
\* subscribe or publish
C13_OnlyRecognizedModes ==
    /\ psMode \notin PubSubModes => psCtor = "Invalid Mode"
    /\ psCtor = "OK" => (psMode \in PubSubModes /\ (canSubscribe(psMode) \/ canPublish(psMode)))

\* C14: disconnect from any connected state, SUBSCRIBED included, invokes the
\* disconnect-hook and sets the state to DISCONNECTED; connect when connected
\* and disconnect when not connected invoke no hook and change nothing
C14_ConnectDisconnect ==
    [][/\ CallStep("disconnect")
            => /\ isConnected(psState) => (psRet'.hook /\ psRet'.result = "pending")
               /\ ~isConnected(psState)
                    => (psRet'.result = "return" /\ ~psRet'.hook
                        /\ psPending' = psPending /\ psState' = psState)
       /\ (CallStep("connect") /\ isConnected(psState))
            => (psRet'.result = "return" /\ ~psRet'.hook
                /\ psPending' = psPending /\ psState' = psState)
       /\ (SettleStep("disconnect") /\ psRet'.result = "OK") => psState' = DISCONNECTED]_vars
\* C14 witness: disconnect succeeded on a subscribed handler
C14_Witness ==
    /\ psRet.op = "disconnect" /\ psRet.result = "OK" /\ psRet.pre = SUBSCRIBED
    /\ psState = DISCONNECTED

\* C15 (as claimed): each successful connect, disconnect, subscribe,
\* unsubscribe and publish emits the event named after it, delivered once the
\* state transition is complete
C15_LifecycleEventEmitted ==
    [][\A op \in Ops :
         (SettleStep(op) /\ psRet'.result = "OK")
            => psEvent' = [name |-> eventOf(op), state |-> psState']]_vars

\* C16 (as claimed): a transition method called while the hook of another
\* transition is in flight waits for it or is rejected, so at most one
\* transition hook is in flight at any time
C16_OneTransitionInFlight == TransitionsInFlight <= 1

\* C17: the state changes only when the hook of a transition method has
\* completed without failure; while the hook is pending the state is the
\* state before the call, and when the hook fails the state stays that state
\* and the caller gets the failure
C17_StateAdvancesAfterHook ==
    [][/\ \A k \in BagToSet(psPending') : k.op \in Transitions => psState' = k.pre
       /\ psState' # psState
            => \E op \in Transitions :
                  /\ SettleStep(op) /\ psRet'.result = "OK"
                  /\ psState' = target(op, psRet'.pre)
       /\ \A op \in Transitions :
            (SettleStep(op) /\ psRet'.result # "OK")
                => (psRet'.result = "Hook Failed" /\ psState' = psRet'.pre)]_vars
\* C17 witness: the subscribe-hook failed and the handler is still CONNECTED
C17_Witness ==
    /\ psRet.op = "subscribe" /\ psRet.result = "Hook Failed"
    /\ psRet.pre = CONNECTED /\ psState = CONNECTED /\ psPending = EmptyBag

\* C20 (as claimed): in sequential use with hooks that never fail, the
\* connect-hook and the disconnect-hook alternate, the connect-hook first
C20_ConnectDisconnectAlternate ==
    [][/\ (SettleStep("connect") /\ psRet'.result = "OK") => psLink.cd # "connect"
       /\ (SettleStep("disconnect") /\ psRet'.result = "OK") => psLink.cd = "connect"]_vars

\* C20 (amended): the connect-hook is not invoked again unless the
\* disconnect-hook or the unsubscribe-hook (which also sets DISCONNECTED) was
\* invoked since; the disconnect-hook is invoked only when the connect-hook
\* was the last of the three
C20_ConnectAfterDisconnectOrUnsubscribe ==
    [][/\ (SettleStep("connect") /\ psRet'.result = "OK") => psLink.cdu # "connect"
       /\ (SettleStep("disconnect") /\ psRet'.result = "OK") => psLink.cdu = "connect"]_vars
\* C20 witness: the connect-hook ran again after an unsubscribe
C20_Witness ==
    /\ psRet.op = "connect" /\ psRet.result = "OK"
    /\ psLink.cdu = "connect" /\ psLink.prev = "unsubscribe" /\ psState = CONNECTED

====
